---- MODULE Spec2Model ----
(***************************************************************************)
(* Model of packages/vite/src/node/server/middlewares/static.ts: the       *)
(* file-serving access policy (isFileLoadingAllowed, isFileServingAllowed, *)
(* checkLoadingAccess) and the three serving middlewares                   *)
(* (viteServePublicMiddleware, viteServeStaticMiddleware,                  *)
(* viteServeRawFsMiddleware) with the sirv static file server they call.   *)
(*                                                                         *)
(* A JavaScript string is a sequence of tokens.  A token is one character  *)
(* ("/", "x", "%", "4", "<", "\\", ...) or a word that the model never     *)
(* splits ("@fs", "@id", "import", "url", ".html").                         *)
(***************************************************************************)
EXTENDS Integers, Sequences, FiniteSets, TLC

VARIABLES
    platform,     \* [isWindows, isCaseInsensitiveFS]: process-wide constants
    config,       \* the ResolvedConfig: root, publicDir, alias, fs policy
    publicFiles,  \* the optional Set<string> given to servePublicMiddleware
    disk,         \* [exists, readable]: the files on disk
    pc,           \* "idle" before a call, "done" after it
    op,           \* the handler or function that ran
    arg,          \* its input: the request URL, or the path given
    result,       \* the value a function returned
    req,          \* [url]: the request after the handler
    res,          \* [statusCode, body, ended]: the response
    nextCalls,    \* number of calls of next() by the handler and sirv
    served,       \* the sirv invocations: [dir, pathname, file, access, raised]
    policyCalls,  \* number of calls of isFileLoadingAllowed
    diskChecks,   \* number of existence/readability checks on disk
    thrown        \* the exception that left the handler, or NoError

vars == <<platform, config, publicFiles, disk, pc, op, arg, result, req, res,
          nextCalls, served, policyCalls, diskChecks, thrown>>

(***************************************************************************)
(* Bounds of the model.                                                    *)
(***************************************************************************)
MaxPathLen == 3
MaxUrlLen == 3

SeqsUpTo(A, n) == UNION {[1..k -> A] : k \in 0..n}

(***************************************************************************)
(* String primitives of ECMAScript, on token sequences.                    *)
(***************************************************************************)
startsWith(s, p) == Len(p) <= Len(s) /\ SubSeq(s, 1, Len(p)) = p

endsWithSlash(s) == Len(s) > 0 /\ s[Len(s)] = "/"

slice(s, n) == SubSeq(s, n + 1, Len(s))

\* String.prototype.indexOf: the first position of pat in s, 0 when absent.
indexOf(s, pat) ==
    LET hits == {i \in 1..(Len(s) - Len(pat) + 1) :
                    SubSeq(s, i, i + Len(pat) - 1) = pat}
    IN IF hits = {} THEN 0 ELSE CHOOSE i \in hits : \A j \in hits : i <= j

toLowerCase(s) == [i \in 1..Len(s) |-> IF s[i] = "X" THEN "x" ELSE s[i]]

RECURSIVE flatten(_)
flatten(ss) == IF ss = <<>> THEN <<>> ELSE Head(ss) \o flatten(Tail(ss))

(***************************************************************************)
(* shared/utils and utils helpers imported by static.ts.                   *)
(***************************************************************************)
FS_PREFIX == <<"/", "@fs", "/">>
VALID_ID_PREFIX == <<"/", "@id", "/">>

\* slash(p): p.replace(/\\/g, '/')
slash(p) == [i \in 1..Len(p) |-> IF p[i] = "\\" THEN "/" ELSE p[i]]

withTrailingSlash(p) == IF endsWithSlash(p) THEN p ELSE p \o <<"/">>

\* cleanUrl(url): url.replace(/[?#].*$/, '')
cleanUrl(url) ==
    LET q == indexOf(url, <<"?">>)
    IN IF q = 0 THEN url ELSE SubSeq(url, 1, q - 1)

isSameFilePath(file1, file2) ==
    \/ file1 = file2
    \/ platform.isCaseInsensitiveFS /\ toLowerCase(file1) = toLowerCase(file2)

isParentDirectory(dir, file) ==
    LET d == withTrailingSlash(dir)
    IN \/ startsWith(file, d)
       \/ platform.isCaseInsensitiveFS
            /\ startsWith(toLowerCase(file), toLowerCase(d))

\* The last path segment: what a base-name deny pattern is matched against.
basename(p) ==
    LET cut == {i \in 1..Len(p) : p[i] = "/"}
        last == IF cut = {} THEN 0 ELSE CHOOSE i \in cut : \A j \in cut : j <= i
    IN SubSeq(p, last + 1, Len(p))

\* config.fsDenyGlob: a matcher of server.fs.deny; a pattern without a slash
\* matches the base name at any depth, case-insensitively.
fsDenyGlob(cfg, filePath) ==
    \E pat \in cfg.fs.deny : toLowerCase(basename(filePath)) = toLowerCase(pat)

(***************************************************************************)
(* The access policy: static.ts lines 265-311.                              *)
(***************************************************************************)

\* Mutant: the same-path case is forgotten.
isFileInTargetPath_parentOnly(targetPath, filePath) ==
    isParentDirectory(targetPath, filePath)

isFileInTargetPath(targetPath, filePath) ==
    \/ isSameFilePath(targetPath, filePath)
    \/ isParentDirectory(targetPath, filePath)


\* Mutant: the trusted paths are looked at before the deny patterns.
isFileLoadingAllowed_trustedFirst(cfg, filePath) ==
    IF ~cfg.fs.strict THEN TRUE
    ELSE IF filePath \in cfg.safeModulePaths THEN TRUE
    ELSE IF fsDenyGlob(cfg, filePath) THEN FALSE
    ELSE IF \E uri \in cfg.fs.allow : isFileInTargetPath(uri, filePath) THEN TRUE
    ELSE FALSE

\* Mutant: the deny patterns are looked at before the strict flag.
isFileLoadingAllowed_denyBeforeStrict(cfg, filePath) ==
    IF fsDenyGlob(cfg, filePath) THEN FALSE
    ELSE IF ~cfg.fs.strict THEN TRUE
    ELSE IF filePath \in cfg.safeModulePaths THEN TRUE
    ELSE IF \E uri \in cfg.fs.allow : isFileInTargetPath(uri, filePath) THEN TRUE
    ELSE FALSE

isFileLoadingAllowed(cfg, filePath) ==
    IF ~cfg.fs.strict THEN TRUE
    ELSE IF fsDenyGlob(cfg, filePath) THEN FALSE
    ELSE IF filePath \in cfg.safeModulePaths THEN TRUE
    ELSE IF \E uri \in cfg.fs.allow : isFileInTargetPath(uri, filePath) THEN TRUE
    ELSE FALSE

\* isFileReadable(path): fs.accessSync(path, R_OK) succeeds.
isFileReadable(path) == path \in disk.readable


\* Mutant: the disk is looked at first, so a readable path is 'denied'.
checkLoadingAccess_diskFirst(cfg, path) ==
    IF isFileReadable(path)
    THEN [value |-> "denied", policyCalls |-> 0, diskChecks |-> 1]
    ELSE IF isFileLoadingAllowed(cfg, slash(path))
    THEN [value |-> "allowed", policyCalls |-> 1, diskChecks |-> 1]
    ELSE [value |-> "fallback", policyCalls |-> 1, diskChecks |-> 1]

\* checkLoadingAccess with the calls it makes: the disk is looked at only
\* when the policy does not allow the path.
checkLoadingAccess(cfg, path) ==
    IF isFileLoadingAllowed(cfg, slash(path))
    THEN [value |-> "allowed", policyCalls |-> 1, diskChecks |-> 0]
    ELSE IF isFileReadable(path)
    THEN [value |-> "denied", policyCalls |-> 1, diskChecks |-> 1]
    ELSE [value |-> "fallback", policyCalls |-> 1, diskChecks |-> 1]

(***************************************************************************)
(* Paths and URLs: node:path, the WHATWG URL class, encodeURI, decodeURI.  *)
(***************************************************************************)
RECURSIVE split(_)
split(s) ==
    LET i == indexOf(s, <<"/">>)
    IN IF i = 0 THEN <<s>> ELSE <<SubSeq(s, 1, i - 1)>> \o split(slice(s, i))

RECURSIVE join(_)
join(segs) ==
    IF segs = <<>> THEN <<>>
    ELSE IF Len(segs) = 1 THEN segs[1]
    ELSE segs[1] \o <<"/">> \o join(Tail(segs))

RECURSIVE normalizeSegments(_, _, _)
normalizeSegments(segs, acc, absolute) ==
    IF segs = <<>> THEN acc
    ELSE LET h == Head(segs) IN
         IF h = <<>> \/ h = <<".">> THEN normalizeSegments(Tail(segs), acc, absolute)
         ELSE IF h = <<".", ".">>
         THEN IF acc # <<>> /\ acc[Len(acc)] # <<".", ".">>
              THEN normalizeSegments(Tail(segs), SubSeq(acc, 1, Len(acc) - 1), absolute)
              ELSE IF absolute THEN normalizeSegments(Tail(segs), acc, absolute)
              ELSE normalizeSegments(Tail(segs), Append(acc, h), absolute)
         ELSE normalizeSegments(Tail(segs), Append(acc, h), absolute)

\* path.posix.normalize
posixNormalize(p) ==
    IF p = <<>> THEN <<".">>
    ELSE LET absolute == p[1] = "/"
             body == join(normalizeSegments(split(p), <<>>, absolute))
             named == IF body = <<>> /\ ~absolute THEN <<".">> ELSE body
             tailed == IF named # <<>> /\ endsWithSlash(p)
                       THEN named \o <<"/">> ELSE named
         IN IF absolute THEN <<"/">> \o tailed ELSE tailed

\* normalizePath(id): path.posix.normalize(isWindows ? slash(id) : id)
normalizePath(id) == posixNormalize(IF platform.isWindows THEN slash(id) ELSE id)

\* path.extname on a cleaned URL; ".html" is the one extension of the alphabet.
extname(p) ==
    IF Len(p) >= 2 /\ p[Len(p)] = ".html" /\ p[Len(p) - 1] # "/"
    THEN <<".html">> ELSE <<>>

\* The percent escapes that occur: %44 is "D", %3C is "<", %25 is "%";
\* %3F is "?", a reserved character, which decodeURI leaves escaped.
Escapes ==
    (<<"4", "4">> :> <<"D">>) @@ (<<"3", "C">> :> <<"<">>) @@
    (<<"2", "5">> :> <<"%">>) @@ (<<"3", "F">> :> <<"%", "3", "F">>)

\* decodeURI(s): [ok, val]; ok = FALSE is the URIError of a malformed escape.
RECURSIVE decodeURI(_)
decodeURI(s) ==
    IF s = <<>> THEN [ok |-> TRUE, val |-> <<>>]
    ELSE IF s[1] # "%"
    THEN LET r == decodeURI(Tail(s)) IN [ok |-> r.ok, val |-> <<s[1]>> \o r.val]
    ELSE IF Len(s) < 3 \/ <<s[2], s[3]>> \notin DOMAIN Escapes
    THEN [ok |-> FALSE, val |-> <<>>]
    ELSE LET r == decodeURI(slice(s, 3))
         IN [ok |-> r.ok, val |-> Escapes[<<s[2], s[3]>>] \o r.val]

\* encodeURI(s): "%" and "<" are escaped; "/", "?", ":", "@" and the
\* unreserved characters are kept.
encodeURI(s) ==
    flatten([i \in 1..Len(s) |->
        IF s[i] = "%" THEN <<"%", "2", "5">>
        ELSE IF s[i] = "<" THEN <<"%", "3", "C">>
        ELSE <<s[i]>>])

\* The URL parser's percent-encoding of a path or query: "<" is escaped, an
\* existing "%" is kept as it is.
urlEncode(s) ==
    flatten([i \in 1..Len(s) |->
        IF s[i] = "<" THEN <<"%", "3", "C">> ELSE <<s[i]>>])

\* new URL(reqUrl, 'http://example.com') for a path-absolute reqUrl.
newURL(reqUrl) ==
    LET q == indexOf(reqUrl, <<"?">>)
    IN [pathname |-> urlEncode(cleanUrl(reqUrl)),
        search |-> IF q = 0 THEN <<>> ELSE urlEncode(slice(reqUrl, q - 1))]

\* url.pathname = v: the setter parses v as a path: a missing leading slash
\* is added and "?" is escaped.
setPathname(url, v) ==
    LET enc == flatten([i \in 1..Len(v) |->
                   IF v[i] = "?" THEN <<"%", "3", "F">> ELSE <<v[i]>>])
        p == urlEncode(enc)
    IN [url EXCEPT !.pathname =
            IF p # <<>> /\ p[1] = "/" THEN p ELSE <<"/">> \o p]

\* url.href.slice(url.origin.length)
hrefAfterOrigin(url) == url.pathname \o url.search

\* isImportRequest(url): /(\?|&)import=?(?:&|$)/ ; urlRE: /(\?|&)url(?:&|$)/
hasQueryMarker(url, word) ==
    \E i \in 1..(Len(url) - 1) :
        /\ url[i] \in {"?", "&"}
        /\ url[i + 1] = word
        /\ (i + 1 = Len(url) \/ url[i + 2] = "&")

isImportRequest(url) == hasQueryMarker(url, "import")

urlRE(url) == hasQueryMarker(url, "url")

\* isInternalRequest(url): the URL starts with an internal prefix.
isInternalRequest(url) ==
    startsWith(url, FS_PREFIX) \/ startsWith(url, VALID_ID_PREFIX)

\* fsPathFromUrl(url) = fsPathFromId(cleanUrl(url))
fsPathFromUrl(url) ==
    LET id == cleanUrl(url)
        fsPath == normalizePath(IF startsWith(id, FS_PREFIX)
                                THEN slice(id, Len(FS_PREFIX)) ELSE id)
    IN IF fsPath # <<>> /\ fsPath[1] = "/" THEN fsPath ELSE <<"/">> \o fsPath

\* isFileServingAllowed(configOrUrl, urlOrServer): both call shapes.  An
\* argument is [type, value], type being what typeof gives.
isFileServingAllowed(configOrUrl, urlOrServer) ==
    LET cfg == IF urlOrServer.type = "string"
               THEN configOrUrl.value ELSE urlOrServer.value.config
        url == IF urlOrServer.type = "string"
               THEN urlOrServer.value ELSE configOrUrl.value
    IN IF ~cfg.fs.strict THEN [value |-> TRUE, policyCalls |-> 0]
       ELSE [value |-> isFileLoadingAllowed(cfg, fsPathFromUrl(url)),
             policyCalls |-> 1]

(***************************************************************************)
(* State shared by every specification.                                    *)
(***************************************************************************)
NoError == [code |-> "none", path |-> <<>>]

NoResponse ==
    [statusCode |-> 0, body |-> [kind |-> "none", id |-> <<>>], ended |-> FALSE]

boolean(b) == IF b THEN "true" ELSE "false"

\* No call is in progress and nothing of the last one is kept.
Idle ==
    /\ pc = "idle"
    /\ op = "none"
    /\ arg = <<>>
    /\ result = "none"
    /\ req = [url |-> <<>>]
    /\ res = NoResponse
    /\ nextCalls = 0
    /\ served = <<>>
    /\ policyCalls = 0
    /\ diskChecks = 0
    /\ thrown = NoError

root == <<"/", "x">>
publicDir == <<"/", "x", "/", "x">>

\* The calls are independent: the next one starts from the same server.
Return ==
    /\ pc = "done"
    /\ pc' = "idle"
    /\ op' = "none"
    /\ arg' = <<>>
    /\ result' = "none"
    /\ req' = [url |-> <<>>]
    /\ res' = NoResponse
    /\ nextCalls' = 0
    /\ served' = <<>>
    /\ policyCalls' = 0
    /\ diskChecks' = 0
    /\ thrown' = NoError
    /\ UNCHANGED <<platform, config, publicFiles, disk>>

(***************************************************************************)
(* SpecPolicy: the exported policy functions called on any path.           *)
(***************************************************************************)
PathAlphabet == {"/", "x", "X", "4", "\\"}

FilePaths == {<<"/">> \o b : b \in SeqsUpTo(PathAlphabet, MaxPathLen)}

PolicyConfigs ==
    {[root |-> root, publicDir |-> publicDir, alias |-> <<>>,
      safeModulePaths |-> safe,
      fs |-> [strict |-> strict, deny |-> deny, allow |-> allow]] :
        strict \in BOOLEAN,
        deny \in {{}, {<<"4">>}},
        allow \in {{}, {root}, {<<"/">>}},
        safe \in {{}, {<<"/", "x", "/", "4">>, <<"/", "4">>}}}

PolicyDisks ==
    {[exists |-> f, readable |-> f] :
        f \in {{}, {p \in FilePaths : p[Len(p)] \in {"4", "x"}}}}

InitPolicy ==
    /\ platform \in [isWindows : {FALSE}, isCaseInsensitiveFS : BOOLEAN]
    /\ config \in PolicyConfigs
    /\ publicFiles = [given |-> FALSE, files |-> {}]
    /\ disk \in PolicyDisks
    /\ Idle

Call_isFileLoadingAllowed ==
    /\ pc = "idle"
    /\ \E filePath \in FilePaths :
        /\ op' = "isFileLoadingAllowed"
        /\ arg' = filePath
        /\ result' = boolean(isFileLoadingAllowed(config, filePath))
    /\ pc' = "done"
    /\ policyCalls' = 1
    /\ UNCHANGED <<platform, config, publicFiles, disk, req, res, nextCalls,
                   served, diskChecks, thrown>>

Call_isFileServingAllowed ==
    /\ pc = "idle"
    /\ \E url \in FilePaths, shape \in {"config,url", "url,server"} :
        LET r == IF shape = "config,url"
                 THEN isFileServingAllowed([type |-> "object", value |-> config],
                                           [type |-> "string", value |-> url])
                 ELSE isFileServingAllowed([type |-> "string", value |-> url],
                                           [type |-> "object",
                                            value |-> [config |-> config]])
        IN /\ op' = "isFileServingAllowed(" \o shape \o ")"
           /\ arg' = url
           /\ result' = boolean(r.value)
           /\ policyCalls' = r.policyCalls
    /\ pc' = "done"
    /\ UNCHANGED <<platform, config, publicFiles, disk, req, res, nextCalls,
                   served, diskChecks, thrown>>

Call_checkLoadingAccess ==
    /\ pc = "idle"
    /\ \E path \in FilePaths :
        LET r == checkLoadingAccess(config, path)
        IN /\ op' = "checkLoadingAccess"
           /\ arg' = path
           /\ result' = r.value
           /\ policyCalls' = r.policyCalls
           /\ diskChecks' = r.diskChecks
    /\ pc' = "done"
    /\ UNCHANGED <<platform, config, publicFiles, disk, req, res, nextCalls,
                   served, thrown>>

NextPolicy ==
    \/ Call_isFileLoadingAllowed
    \/ Call_isFileServingAllowed
    \/ Call_checkLoadingAccess
    \/ Return

SpecPolicy == InitPolicy /\ [][NextPolicy]_vars

\* C1: in strict mode isFileLoadingAllowed refuses every path that matches a
\* deny pattern, also a trusted path and a path equal to or under an
\* allow-root.
C1_DenyPrecedence ==
    (pc = "done" /\ op = "isFileLoadingAllowed"
        /\ config.fs.strict /\ fsDenyGlob(config, arg))
    => result = "false"

C1_Witness ==
    /\ pc = "done" /\ op = "isFileLoadingAllowed"
    /\ config.fs.strict /\ fsDenyGlob(config, arg)
    /\ arg \in config.safeModulePaths
    /\ \E r \in config.fs.allow : isParentDirectory(r, arg)
    /\ result = "false"

\* C2: in strict mode, for a path that matches no deny pattern,
\* isFileLoadingAllowed returns true exactly when the path is trusted or some
\* allow-root r satisfies isFileInTargetPath(r, p); and for normalized paths
\* on a case-sensitive file system that is: p equals r or p lies under r.
C2_AllowExactly ==
    (pc = "done" /\ op = "isFileLoadingAllowed"
        /\ config.fs.strict /\ ~fsDenyGlob(config, arg))
    => LET segments(p) == SelectSeq(split(p), LAMBDA seg : seg # <<>>)
           under(r, p) == /\ Len(segments(r)) < Len(segments(p))
                          /\ SubSeq(segments(p), 1, Len(segments(r))) = segments(r)
           normalized(p) == posixNormalize(p) = p /\ (Len(p) = 1 \/ ~endsWithSlash(p))
       IN /\ result = "true" <=>
                \/ arg \in config.safeModulePaths
                \/ \E r \in config.fs.allow : isFileInTargetPath(r, arg)
          /\ (~platform.isCaseInsensitiveFS /\ normalized(arg))
             => \A r \in config.fs.allow :
                    isFileInTargetPath(r, arg) <=> (arg = r \/ under(r, arg))

C2_Witness ==
    /\ pc = "done" /\ op = "isFileLoadingAllowed"
    /\ config.fs.strict /\ ~fsDenyGlob(config, arg)
    /\ config.fs.allow # {}
    /\ arg \notin config.safeModulePaths
    /\ \A r \in config.fs.allow : ~isFileInTargetPath(r, arg)
    /\ startsWith(arg, root)
    /\ result = "false"

\* C3: when fs.strict is false every check allows every path:
\* isFileLoadingAllowed and both call shapes of isFileServingAllowed return
\* true, and checkLoadingAccess returns 'allowed' without looking at the disk.
C3_NonStrictAllowsAll ==
    (pc = "done" /\ ~config.fs.strict)
    => /\ op = "isFileLoadingAllowed" => result = "true"
       /\ op = "isFileServingAllowed(config,url)" => result = "true"
       /\ op = "isFileServingAllowed(url,server)" => result = "true"
       /\ op = "checkLoadingAccess" => result = "allowed" /\ diskChecks = 0

C3_Witness ==
    /\ pc = "done" /\ ~config.fs.strict
    /\ op = "checkLoadingAccess"
    /\ fsDenyGlob(config, arg)
    /\ \A r \in config.fs.allow : ~isFileInTargetPath(r, arg)
    /\ arg \in disk.readable
    /\ result = "allowed" /\ diskChecks = 0

\* C4 as stated: checkLoadingAccess(config, path) returns 'allowed' exactly
\* when the policy allows the path it was given, otherwise 'denied' exactly
\* when the path is readable and 'fallback' exactly when it is not.
C4_AsStated ==
    (pc = "done" /\ op = "checkLoadingAccess")
    => /\ result \in {"allowed", "denied", "fallback"}
       /\ result = "allowed" <=> isFileLoadingAllowed(config, arg)
       /\ result = "denied" <=> (~isFileLoadingAllowed(config, arg)
                                    /\ isFileReadable(arg))
       /\ result = "fallback" <=> (~isFileLoadingAllowed(config, arg)
                                      /\ ~isFileReadable(arg))

\* C4 amended: checkLoadingAccess(config, path) returns 'allowed' exactly when
\* the policy allows slash(path), the path with every backslash turned into
\* a forward slash; otherwise 'denied' exactly when the path as given is
\* readable and 'fallback' exactly when it is not; the disk is not looked at
\* for an allowed path.
C4_ThreeValued ==
    (pc = "done" /\ op = "checkLoadingAccess")
    => /\ result \in {"allowed", "denied", "fallback"}
       /\ result = "allowed" <=> isFileLoadingAllowed(config, slash(arg))
       /\ result = "denied" <=> (~isFileLoadingAllowed(config, slash(arg))
                                    /\ isFileReadable(arg))
       /\ result = "fallback" <=> (~isFileLoadingAllowed(config, slash(arg))
                                      /\ ~isFileReadable(arg))
       /\ result = "allowed" => diskChecks = 0

C4_Witness ==
    /\ pc = "done" /\ op = "checkLoadingAccess"
    /\ slash(arg) # arg
    /\ arg \in disk.readable
    /\ ~isFileLoadingAllowed(config, arg)
    /\ result = "allowed"

(***************************************************************************)
(* sirv(dir, sirvOptions(...)): the static file server, static.ts lines    *)
(* 31-77 and the handler it returns.                                        *)
(***************************************************************************)
DeniedError(filePath) == [code |-> "ERR_DENIED_FILE", path |-> filePath]

\* sirvOptions(...).shouldServe(filePath): it returns true or false, or
\* throws the denial.
shouldServe(cfg, filePath) ==
    LET servingAccessResult == checkLoadingAccess(cfg, filePath)
    IN [access |-> servingAccessResult,
        outcome |-> IF servingAccessResult.value = "denied" THEN "throw"
                    ELSE IF servingAccessResult.value = "fallback" THEN "false"
                    ELSE "true",
        error |-> IF servingAccessResult.value = "denied"
                  THEN DeniedError(filePath) ELSE NoError]

\* What one invocation serve(req, res, next) of the handler sirv returns
\* does.  checked is whether shouldServe is set (disableFsServeCheck is
\* not); fault is whether the file system fails under the server while it
\* reads an existing file.  No file of the model's disk is named "index".
Serve(dir, reqUrl, cfg, checked, fault) ==
    LET raw == cleanUrl(reqUrl)
        decoded == decodeURI(raw)
        pathname == IF indexOf(raw, <<"%">>) # 0 /\ decoded.ok
                    THEN decoded.val ELSE raw
        abs == posixNormalize(dir \o <<"/">> \o pathname)
        found == startsWith(abs, dir) /\ abs \in disk.exists
        may == shouldServe(cfg, abs)
        base == [kind |-> "next", pathname |-> pathname, file |-> abs,
                 access |-> "none", error |-> NoError,
                 policyCalls |-> 0, diskChecks |-> 1]
    IN IF ~found THEN base
       ELSE IF fault
       THEN [base EXCEPT !.kind = "throw",
                         !.error = [code |-> "EIO", path |-> abs]]
       ELSE IF ~checked THEN [base EXCEPT !.kind = "sent"]
       ELSE [base EXCEPT
                !.kind = IF may.outcome = "throw" THEN "throw"
                         ELSE IF may.outcome = "false" THEN "next" ELSE "sent",
                !.access = may.access.value,
                !.error = may.error,
                !.policyCalls = may.access.policyCalls,
                !.diskChecks = 1 + may.access.diskChecks]

\* escapeHtml(msg)
escapeHtml(msg) == [i \in 1..Len(msg) |-> IF msg[i] = "<" THEN "&lt;" ELSE msg[i]]

\* respondWithAccessDenied(id, server, res)
respondWithAccessDenied(id, cfg) ==
    [statusCode |-> 403,
     body |-> [kind |-> "restricted", id |-> escapeHtml(id),
               hint |-> cfg.fs.allow],
     ended |-> TRUE]

\* What a handler leaves behind.
Outcome(url, response, nexts, lookups, policy, checks, error) ==
    [url |-> url, res |-> response, nextCalls |-> nexts, served |-> lookups,
     policyCalls |-> policy, diskChecks |-> checks, thrown |-> error]

\* return next()
Declined(reqUrl) == Outcome(reqUrl, NoResponse, 1, <<>>, 0, 0, NoError)

\* decodeURI threw and nothing catches it.
Failed(reqUrl) ==
    Outcome(reqUrl, NoResponse, 0, <<>>, 0, 0, [code |-> "URIError", path |-> <<>>])

FileResponse(file) ==
    [statusCode |-> 200, body |-> [kind |-> "file", id |-> file], ended |-> TRUE]

\* serve(req, res, next) with nothing around it: line 119.
Unguarded(reqUrl, dir, o) ==
    Outcome(reqUrl,
            IF o.kind = "sent" THEN FileResponse(o.file) ELSE NoResponse,
            IF o.kind = "next" THEN 1 ELSE 0,
            <<[dir |-> dir, pathname |-> o.pathname, file |-> o.file,
               access |-> o.access, raised |-> o.error]>>,
            o.policyCalls, o.diskChecks,
            IF o.kind = "throw" THEN o.error ELSE NoError)


\* Mutant: the catch clause answers 403 to whatever was thrown.
Guarded_anyError(reqUrl, dir, o) ==
    IF o.kind = "throw"
    THEN [Unguarded(reqUrl, dir, o) EXCEPT
             !.res = respondWithAccessDenied(o.error.path, config),
             !.thrown = NoError]
    ELSE Unguarded(reqUrl, dir, o)

\* try { serve(req, res, next) } catch (e) { ... }: lines 185-193, 222-230.
Guarded(reqUrl, dir, o) ==
    IF o.kind = "throw" /\ o.error.code = "ERR_DENIED_FILE"
    THEN [Unguarded(reqUrl, dir, o) EXCEPT
             !.res = respondWithAccessDenied(o.error.path, config),
             !.thrown = NoError]
    ELSE Unguarded(reqUrl, dir, o)

(***************************************************************************)
(* servePublicMiddleware: lines 79-121.                                     *)
(***************************************************************************)
toFilePath(url) ==
    LET cleaned == cleanUrl(url)
        decoded == decodeURI(cleaned)
        filePath == IF indexOf(cleaned, <<"%">>) # 0 /\ decoded.ok
                    THEN decoded.val ELSE cleaned
    IN normalizePath(filePath)


\* Mutant: disableFsServeCheck is left out, so sirv asks shouldServe.
viteServePublicMiddleware_checked(reqUrl, fault) ==
    IF \/ publicFiles.given /\ toFilePath(reqUrl) \notin publicFiles.files
       \/ isImportRequest(reqUrl)
       \/ isInternalRequest(reqUrl)
       \/ urlRE(reqUrl)
    THEN Declined(reqUrl)
    ELSE Unguarded(reqUrl, config.publicDir,
                   Serve(config.publicDir, reqUrl, config, TRUE, fault))

viteServePublicMiddleware(reqUrl, fault) ==
    IF \/ publicFiles.given /\ toFilePath(reqUrl) \notin publicFiles.files
       \/ isImportRequest(reqUrl)
       \/ isInternalRequest(reqUrl)
       \/ urlRE(reqUrl)
    THEN Declined(reqUrl)
    ELSE Unguarded(reqUrl, config.publicDir,
                   Serve(config.publicDir, reqUrl, config, FALSE, fault))

(***************************************************************************)
(* serveStaticMiddleware: lines 123-195.                                    *)
(***************************************************************************)
\* An alias is [find |-> [regex, pattern], replacement].  find.test(pathname)
\* or pathname.startsWith(find).
aliasMatches(find, pathname) ==
    IF find.regex THEN indexOf(pathname, find.pattern) # 0
    ELSE startsWith(pathname, find.pattern)

\* pathname.replace(find, replacement): the first match only.
replace(pathname, find, replacement) ==
    LET i == indexOf(pathname, find.pattern)
    IN IF i = 0 THEN pathname
       ELSE SubSeq(pathname, 1, i - 1) \o replacement
                \o slice(pathname, i + Len(find.pattern) - 1)

\* The loop of lines 157-167: redirectedPathname, or undefined.
RECURSIVE applyAlias(_, _)
applyAlias(alias, pathname) ==
    IF alias = <<>> THEN [defined |-> FALSE, value |-> <<>>]
    ELSE IF aliasMatches(Head(alias).find, pathname)
    THEN [defined |-> TRUE,
          value |-> replace(pathname, Head(alias).find, Head(alias).replacement)]
    ELSE applyAlias(Tail(alias), pathname)

\* if (redirectedPathname): undefined and the empty string are falsy.
truthy(s) == s.defined /\ s.value # <<>>

\* Lines 168-173: a result under dir is made relative to it.
stripRoot(redirected, dir) ==
    IF truthy(redirected) /\ startsWith(redirected.value, withTrailingSlash(dir))
    THEN [redirected EXCEPT !.value = slice(redirected.value, Len(dir))]
    ELSE redirected

viteServeStaticMiddleware(reqUrl, fault) ==
    LET cleanedUrl == cleanUrl(reqUrl) IN
    IF \/ endsWithSlash(cleanedUrl)
       \/ extname(cleanedUrl) = <<".html">>
       \/ isInternalRequest(reqUrl)
       \/ startsWith(reqUrl, <<"/", "/">>)
    THEN Declined(reqUrl)
    ELSE LET url == newURL(reqUrl)
             decoded == decodeURI(url.pathname)
         IN IF ~decoded.ok THEN Failed(reqUrl)
            ELSE LET redirectedPathname ==
                         stripRoot(applyAlias(config.alias, decoded.val), config.root)
                     newUrl ==
                         IF truthy(redirectedPathname)
                         THEN hrefAfterOrigin(
                                 setPathname(url, encodeURI(redirectedPathname.value)))
                         ELSE reqUrl
                 IN Guarded(newUrl, config.root,
                            Serve(config.root, newUrl, config, TRUE, fault))

(***************************************************************************)
(* serveRawFsMiddleware: lines 197-235.                                     *)
(***************************************************************************)
Letters == {"x", "X", "C", "D"}

\* newPathname.replace(/^[A-Z]:/i, '')
stripDrive(p) ==
    IF Len(p) >= 2 /\ p[1] \in Letters /\ p[2] = ":" THEN slice(p, 2) ELSE p



\* Mutant: the drive prefix is taken off on every platform.
unwrap_anyPlatform(pathname) == stripDrive(slice(pathname, Len(FS_PREFIX)))

\* Lines 217-218: the path after the prefix, without its drive on Windows.
unwrap(pathname) ==
    LET newPathname == slice(pathname, Len(FS_PREFIX))
    IN IF platform.isWindows THEN stripDrive(newPathname) ELSE newPathname

\* Mutant: the prefix is tested without its closing slash.
hasFsPrefix_noSlash(reqUrl) == startsWith(reqUrl, <<"/", "@fs">>)

\* req.url.startsWith(FS_PREFIX)
hasFsPrefix(reqUrl) == startsWith(reqUrl, FS_PREFIX)

viteServeRawFsMiddleware(reqUrl, fault) ==
    IF hasFsPrefix(reqUrl)
    THEN LET url == newURL(reqUrl)
             decoded == decodeURI(url.pathname)
         IN IF ~decoded.ok THEN Failed(reqUrl)
            ELSE LET newPathname == unwrap(decoded.val)
                     newUrl == hrefAfterOrigin(
                                   setPathname(url, encodeURI(newPathname)))
                 IN Guarded(newUrl, <<"/">>,
                            Serve(<<"/">>, newUrl, config, TRUE, fault))
    ELSE Declined(reqUrl)

(***************************************************************************)
(* The requests and servers of the serving specifications.                 *)
(***************************************************************************)
UrlAlphabet == {"/", "x", "%", "4", "<"}

UrlBodies == SeqsUpTo(UrlAlphabet, MaxUrlLen)

StageDisk ==
    LET files == {<<"/", "x", "/", "4">>, <<"/", "x", "/", "<">>,
                  <<"/", "x", "/", "x", "/", "x">>,
                  <<"/", "x", "/", "x", "/", "D">>, <<"/", "4">>, <<"/", "D">>}
    IN [exists |-> files, readable |-> files \ {<<"/", "D">>}]

ServerConfig(strict, deny, allow, alias) ==
    [root |-> root, publicDir |-> publicDir, alias |-> alias,
     safeModulePaths |-> {},
     fs |-> [strict |-> strict, deny |-> deny, allow |-> allow]]

string(pattern) == [regex |-> FALSE, pattern |-> pattern]
regex(pattern) == [regex |-> TRUE, pattern |-> pattern]

AliasLists ==
    {<<[find |-> string(<<"/", "4">>), replacement |-> <<"/", "<">>]>>,
     <<[find |-> regex(<<"x">>), replacement |-> <<"4">>],
       [find |-> string(<<"/", "x">>), replacement |-> <<"/", "<">>]>>,
     <<[find |-> string(<<"/", "<">>), replacement |-> <<"/", "x", "/", "4">>]>>,
     <<[find |-> string(<<"/", "x">>), replacement |-> <<>>]>>}

\* What a handler did becomes the state.
Handled(name, reqUrl, o) ==
    /\ pc' = "done"
    /\ op' = name
    /\ arg' = reqUrl
    /\ result' = "none"
    /\ req' = [url |-> o.url]
    /\ res' = o.res
    /\ nextCalls' = o.nextCalls
    /\ served' = o.served
    /\ policyCalls' = o.policyCalls
    /\ diskChecks' = o.diskChecks
    /\ thrown' = o.thrown
    /\ UNCHANGED <<platform, config, publicFiles, disk>>

(***************************************************************************)
(* Spec: the root stage and the escape-hatch stage.                        *)
(***************************************************************************)
ServeRequests ==
    {pre \o <<"/">> \o b \o suf :
        pre \in {<<>>, <<"/", "@fs">>, <<"/", "@fs", "/", "C", ":">>,
                 <<"/", "@fs", "x">>},
        b \in UrlBodies,
        suf \in {<<>>, <<".html">>, <<"?", "url">>}}

Init ==
    /\ \/ /\ platform = [isWindows |-> FALSE, isCaseInsensitiveFS |-> FALSE]
          /\ \E strict \in BOOLEAN,
                rules \in {<<{}, {root}>>, <<{<<"4">>}, {root}>>, <<{}, {}>>} :
                config = ServerConfig(strict, rules[1], rules[2], <<>>)
       \/ /\ platform = [isWindows |-> FALSE, isCaseInsensitiveFS |-> FALSE]
          /\ \E alias \in AliasLists :
                config = ServerConfig(TRUE, {}, {root}, alias)
       \/ /\ platform = [isWindows |-> TRUE, isCaseInsensitiveFS |-> TRUE]
          /\ config = ServerConfig(TRUE, {}, {root}, <<>>)
    /\ publicFiles = [given |-> FALSE, files |-> {}]
    /\ disk = StageDisk
    /\ Idle

Request_viteServeStaticMiddleware ==
    /\ pc = "idle"
    /\ \E reqUrl \in ServeRequests, fault \in BOOLEAN :
        Handled("viteServeStaticMiddleware", reqUrl,
                viteServeStaticMiddleware(reqUrl, fault))

Request_viteServeRawFsMiddleware ==
    /\ pc = "idle"
    /\ \E reqUrl \in ServeRequests, fault \in BOOLEAN :
        Handled("viteServeRawFsMiddleware", reqUrl,
                viteServeRawFsMiddleware(reqUrl, fault))

Next ==
    \/ Request_viteServeStaticMiddleware
    \/ Request_viteServeRawFsMiddleware
    \/ Return

Spec == Init /\ [][Next]_vars

(***************************************************************************)
(* SpecPublic: the public-directory stage.                                 *)
(***************************************************************************)
PublicRequests ==
    {pre \o <<"/">> \o b \o suf :
        pre \in {<<>>, <<"/", "@fs">>, <<"/", "@id">>},
        b \in UrlBodies,
        suf \in {<<>>, <<"?", "import">>, <<"?", "url">>,
                 <<"?", "x">>, <<"?", "x", "&", "import">>}}

InitPublic ==
    /\ platform = [isWindows |-> FALSE, isCaseInsensitiveFS |-> FALSE]
    /\ \E strict \in BOOLEAN, rules \in {<<{}, {root}>>, <<{<<"x">>}, {}>>} :
          config = ServerConfig(strict, rules[1], rules[2], <<>>)
    /\ publicFiles \in {[given |-> FALSE, files |-> {}],
                        [given |-> TRUE, files |-> {}],
                        [given |-> TRUE, files |-> {<<"/", "x">>, <<"/", "D">>}]}
    /\ disk = StageDisk
    /\ Idle

Request_viteServePublicMiddleware ==
    /\ pc = "idle"
    /\ \E reqUrl \in PublicRequests, fault \in BOOLEAN :
        Handled("viteServePublicMiddleware", reqUrl,
                viteServePublicMiddleware(reqUrl, fault))

NextPublic ==
    \/ Request_viteServePublicMiddleware
    \/ Return

SpecPublic == InitPublic /\ [][NextPublic]_vars

(***************************************************************************)
(* Claims about the serving stages.                                        *)
(***************************************************************************)
StageOps == {"viteServeStaticMiddleware", "viteServeRawFsMiddleware"}

\* C5: in the root stage and the escape-hatch stage, when checkLoadingAccess
\* returned 'denied' inside the sirv call the stage answers 403 with the
\* offending path, does not call next and throws nothing; an error of
\* another kind raised by sirv leaves the stage unchanged, without a 403.
C5_DenialBecomes403 ==
    (pc = "done" /\ op \in StageOps /\ served # <<>>)
    => /\ served[1].access = "denied"
          => /\ res.statusCode = 403
             /\ res.body.kind = "restricted"
             /\ res.body.id = escapeHtml(served[1].file)
             /\ res.ended
             /\ nextCalls = 0
             /\ thrown = NoError
       /\ served[1].raised.code \notin {"none", "ERR_DENIED_FILE"}
          => /\ thrown = served[1].raised
             /\ res = NoResponse
             /\ nextCalls = 0

C5_Witness ==
    /\ pc = "done" /\ op = "viteServeRawFsMiddleware"
    /\ served # <<>>
    /\ served[1].access = "denied"
    /\ served[1].file = <<"/", "4">>
    /\ res.statusCode = 403
    /\ thrown = NoError

\* C6 as stated: a request whose path has a malformed percent escape never
\* leaves a serving stage as a thrown exception.
C6_MalformedNeverThrows ==
    (pc = "done" /\ op \in StageOps \cup {"viteServePublicMiddleware"}
        /\ ~decodeURI(cleanUrl(arg)).ok)
    => thrown = NoError

\* The path of a request of the escape-hatch stage: what follows "/@fs".
fsPathOf(reqUrl) == slice(reqUrl, 2)

\* The path the claim expects sirv to get, the drive taken off on Windows.
expectedFsPath(reqUrl) ==
    LET P == fsPathOf(reqUrl)
    IN IF platform.isWindows /\ Len(P) >= 3 /\ P[2] \in Letters /\ P[3] = ":"
       THEN (IF Len(P) = 3 THEN <<"/">> ELSE slice(P, 3))
       ELSE P

\* C7 as stated: for every absolute path P, the request "/@fs" P reaches sirv
\* with a URL whose decoded path is P.
C7_AsStated ==
    (pc = "done" /\ op = "viteServeRawFsMiddleware" /\ hasFsPrefix(arg))
    => /\ served # <<>>
       /\ served[1].pathname = expectedFsPath(arg)

\* C7 amended: for every absolute path P that starts with a single slash and
\* holds no "%" and no "?", the request "/@fs" P reaches the sirv server of
\* the file system root with a URL whose decoded path is P, the drive prefix
\* taken off on Windows.
C7_RoundTrip ==
    (pc = "done" /\ op = "viteServeRawFsMiddleware" /\ hasFsPrefix(arg)
        /\ \A i \in 1..Len(arg) : arg[i] \notin {"%", "?"}
        /\ ~startsWith(fsPathOf(arg), <<"/", "/">>))
    => /\ served # <<>>
       /\ served[1].dir = <<"/">>
       /\ served[1].pathname = expectedFsPath(arg)
       /\ decodeURI(cleanUrl(req.url)).val = expectedFsPath(arg)
       /\ thrown.code # "URIError"

C7_Witness ==
    /\ pc = "done" /\ op = "viteServeRawFsMiddleware"
    /\ arg = <<"/", "@fs", "/", "x", "/", "<">>
    /\ req.url = <<"/", "x", "/", "%", "3", "C">>
    /\ served # <<>>
    /\ served[1].pathname = <<"/", "x", "/", "<">>
    /\ res.statusCode = 200

\* C8: for a request whose URL does not start with "/@fs/" the escape-hatch
\* stage calls next once and does nothing else: no sirv call, no policy
\* check, no disk check, no response, the URL unchanged.
C8_InactiveWithoutPrefix ==
    (pc = "done" /\ op = "viteServeRawFsMiddleware"
        /\ ~startsWith(arg, <<"/", "@fs", "/">>))
    => /\ nextCalls = 1
       /\ served = <<>>
       /\ policyCalls = 0
       /\ diskChecks = 0
       /\ res = NoResponse
       /\ req.url = arg
       /\ thrown = NoError

C8_Witness ==
    /\ pc = "done" /\ op = "viteServeRawFsMiddleware"
    /\ startsWith(arg, <<"/", "@fs", "x", "/", "4">>)
    /\ nextCalls = 1
    /\ served = <<>>

\* C9: the public stage gives the request to sirv exactly when (no set of
\* known public files was given or the set holds the cleaned, decoded,
\* normalized path) and the request is not import-marked, internal or
\* ?url-marked; otherwise it calls next once and sirv is not called; the
\* policy is never asked, so a file that exists is sent whatever the policy.
C9_PublicStage ==
    (pc = "done" /\ op = "viteServePublicMiddleware")
    => LET cleaned == cleanUrl(arg)
           path == normalizePath(IF decodeURI(cleaned).ok
                                 THEN decodeURI(cleaned).val ELSE cleaned)
           handed == /\ ~publicFiles.given \/ path \in publicFiles.files
                     /\ ~isImportRequest(arg)
                     /\ ~isInternalRequest(arg)
                     /\ ~urlRE(arg)
       IN /\ served # <<>> <=> handed
          /\ Len(served) <= 1
          /\ ~handed => (nextCalls = 1 /\ res = NoResponse /\ thrown = NoError)
          /\ policyCalls = 0
          /\ req.url = arg
          /\ (handed /\ served[1].file \in disk.exists
                /\ served[1].raised = NoError)
             => (res.statusCode = 200 /\ nextCalls = 0)
          /\ (handed /\ served[1].file \notin disk.exists)
             => (res = NoResponse /\ nextCalls = 1)

C9_Witness ==
    /\ pc = "done" /\ op = "viteServePublicMiddleware"
    /\ publicFiles.given
    /\ config.fs.strict
    /\ served # <<>>
    /\ ~isFileLoadingAllowed(config, served[1].file)
    /\ arg = <<"/", "%", "4", "4">>
    /\ res.statusCode = 200
    /\ policyCalls = 0

\* C10 as stated: in the root stage, when an alias rule matches the decoded
\* path the first matching rule is applied to its first match, a served-root
\* prefix of the result is taken off and the request path is that result
\* when sirv is called; when no rule matches the URL is unchanged and the
\* file looked up is the served root joined with the request path.
C10_AliasRewrite ==
    (pc = "done" /\ op = "viteServeStaticMiddleware"
        /\ served # <<>> /\ decodeURI(newURL(arg).pathname).ok)
    => LET pathname == decodeURI(newURL(arg).pathname).val
           alias == config.alias
           hits == {i \in 1..Len(alias) : aliasMatches(alias[i].find, pathname)}
           first == CHOOSE i \in hits : \A j \in hits : i <= j
           at == indexOf(pathname, alias[first].find.pattern)
           rewritten == SubSeq(pathname, 1, at - 1) \o alias[first].replacement
                            \o slice(pathname, at + Len(alias[first].find.pattern) - 1)
           relative == IF startsWith(rewritten, config.root \o <<"/">>)
                       THEN slice(rewritten, Len(config.root)) ELSE rewritten
           asPath == IF relative # <<>> /\ relative[1] = "/"
                     THEN relative ELSE <<"/">> \o relative
       IN IF hits # {}
          THEN /\ served[1].pathname = asPath
               /\ decodeURI(cleanUrl(req.url)).val = asPath
          ELSE /\ req.url = arg
               /\ served[1].file = posixNormalize(config.root \o <<"/">> \o pathname)

\* C10 where it holds: the same, for a rewritten path that is not empty.
C10_NonEmptyRewrite ==
    (pc = "done" /\ op = "viteServeStaticMiddleware"
        /\ served # <<>> /\ decodeURI(newURL(arg).pathname).ok)
    => LET pathname == decodeURI(newURL(arg).pathname).val
           applied == applyAlias(config.alias, pathname)
       IN (applied.defined /\ applied.value = <<>>) \/ C10_AliasRewrite

====
